---- MODULE Spec2Model ----
(***************************************************************************)
(* Verification model of the a_gent_parl content pipelines:                *)
(*   - the SQLite stores of src/src/utilities/database_manager.py          *)
(*     (Quote, News and the ContentDatabase table),                        *)
(*   - the posting pipelines nerd_quote, weekly_nerd_curiosities and the   *)
(*     legacy weekly_quote script,                                         *)
(*   - the retry loops of TelegramInterface and LLMInterface.              *)
(* Text values are TLA+ strings; where the code looks inside a text        *)
(* (LIKE '%x%') the characters come from the table Chars.                  *)
(***************************************************************************)
EXTENDS Integers, Sequences, FiniteSets, TLC

\* ------------------------------------------------------------------ bounds

\* rows of the Quote table in an initial database file
MaxQuotes == 2
\* rows of the Quote table the category filter is tried on
MaxFilteredQuotes == 3
\* rows of the News table in an initial database file
MaxNews == 1
\* rows the ContentDatabase table may grow to
MaxContent == 2
\* pipeline runs started one after the other
MaxRuns == 2
\* files in the folder of pending images
MaxImages == 2
\* the largest max_retries an LLMInterface is constructed with
MaxConfiguredRetries == 3
\* the largest retry_delay an LLMInterface is constructed with
MaxRetryDelay == 2
\* the largest retry_attempts a TelegramInterface is constructed with
MaxRetryAttempts == 3
\* the configured [telegram] retry_attempts
RetryAttempts == 2

\* ------------------------------------------------------ program constants

\* LLMInterface(max_retries = 3)
LlmMaxRetries == 3
\* get_random_nerd_article: max_retries = 10
DiscoveryMaxRetries == 10

\* ------------------------------------------------------------- SQL values

\* SQL NULL / Python None for a text column or argument
NULL == "NULL"

\* category texts that occur in the modelled database files
CategoryNames == {"Manga", "sports"}

\* the characters of every text the code searches with LIKE
Chars ==
  [s \in CategoryNames \cup {"", "anime", "manga", "comics", "cartoon",
                             "manga-comics"} |->
     CASE s = "anime"  -> <<"a", "n", "i", "m", "e">>
       [] s = "manga-comics" ->
            <<"m", "a", "n", "g", "a", "-", "c", "o", "m", "i", "c", "s">>
       [] s = "Manga"  -> <<"M", "a", "n", "g", "a">>
       [] s = "manga"  -> <<"m", "a", "n", "g", "a">>
       [] s = "sports" -> <<"s", "p", "o", "r", "t", "s">>
       [] s = "comics" -> <<"c", "o", "m", "i", "c", "s">>
       [] s = "cartoon" -> <<"c", "a", "r", "t", "o", "o", "n">>
       [] OTHER        -> << >>]

\* SQLite's LIKE folds ASCII case
Lower(ch) == IF ch = "M" THEN "m" ELSE ch

LowerSeq(s) == [i \in 1..Len(s) |-> Lower(s[i])]

\* a comparison that wants the whole text to be the pattern
LikeWholeText(text, pat) == text = pat

\* SQLite:  text LIKE '%' || pat || '%'   (NULL LIKE x is NULL, i.e. not true)
Like(text, pat) ==
  /\ text # NULL
  /\ LET t == LowerSeq(Chars[text])
         p == LowerSeq(Chars[pat])
     IN \E i \in 0..(Len(t) - Len(p)) : SubSeq(t, i + 1, i + Len(p)) = p

\* ------------------------------------------------------------------- state

VARIABLES
  Quote,     \* table Quote: row id = index; [author, category, quote_text, posted]
  News,      \* table News: row id = index; [posted]
  content,   \* the ContentDatabase table (ContentHistory / ArticleHistory); id = index
  last,      \* the last call made on a store object and what it returned
  marked,    \* per table: the ids for which mark-posted has returned True;
             \* metadata: the kwargs of the mark_content_posted calls that stored a row
  run,       \* per process: the pipeline run it executes and where it stands
  channel,   \* per item: the posts the Telegram channel has received
  unrecorded, \* per item: the posts after which the mark-posted write failed
  runsStarted,
  images,    \* the image folders: [pending, posted], oldest file first
  gen,       \* one call of the LLMInterface generator and its configuration
  req        \* one call of the TelegramInterface request routine

store == <<Quote, News, content, last, marked>>
pipeline == <<run, channel, unrecorded, runsStarted, images, gen, req>>
vars == <<Quote, News, content, last, marked, run, channel, unrecorded, runsStarted,
          images, gen, req>>

NoCall == [op |-> "none", id |-> 0, categories |-> << >>, err |-> FALSE,
           ok |-> FALSE, raised |-> FALSE, row |-> 0, pre |-> << >>,
           again |-> FALSE, days |-> 0, kwargs |-> << >>, result |-> << >>,
           title |-> NULL, ctype |-> NULL, category |-> NULL, module |-> NULL]

\* no generator is called on its own
NoGen == [method |-> NULL, max_retries |-> 0, retry_delay |-> 0, pc |-> "none",
          attempt |-> 0, requests |-> 0, slept |-> << >>, result |-> NULL]

\* no request routine is called on its own
NoReq == [configured |-> [retry_attempts |-> 0, retry_delay |-> 0],
          retry_attempts |-> 0, retry_delay |-> 0, pc |-> "none",
          attempt |-> 0, requests |-> 0, slept |-> << >>, response |-> NULL]

\* no image folder is looked at
NoImages == [pending |-> << >>, posted |-> {}]

\* the store specifications run no pipeline
NoPipeline ==
  /\ run = << >>
  /\ channel = [quote |-> << >>, article |-> << >>]
  /\ unrecorded = [quote |-> << >>, article |-> << >>]
  /\ runsStarted = 0
  /\ images = NoImages
  /\ gen = NoGen
  /\ req = NoReq

\* ---------------------------------------------------------- QuoteDatabase

\* a WHERE clause that forgets posted = 0
QuoteMatchesAnyPosted(tbl, categories) ==
  {i \in 1..Len(tbl) :
     (categories # << >>) =>
        \E k \in 1..Len(categories) : Like(tbl[i].category, categories[k])}

\* WHERE posted = 0 [AND (category LIKE ? OR ...)]  of get_random_unposted_quote
QuoteMatches(tbl, categories) ==
  {i \in 1..Len(tbl) :
     /\ tbl[i].posted = 0
     /\ (categories # << >>) =>
          \E k \in 1..Len(categories) : Like(tbl[i].category, categories[k])}

\* get_random_unposted_quote: the ids ORDER BY RANDOM() LIMIT 1 may return;
\* 0 stands for the None result.  A sqlite3.Error gives None.
GetRandomUnpostedQuote(tbl, categories, err) ==
  IF err \/ QuoteMatches(tbl, categories) = {}
    THEN {0}
    ELSE QuoteMatches(tbl, categories)

\* an UPDATE that flips the flag of the row
UpdatePostedToggle(tbl, id) ==
  [i \in 1..Len(tbl) |-> IF i = id THEN [tbl[i] EXCEPT !.posted = 1 - @] ELSE tbl[i]]

\* an UPDATE that sets the flag on no row although it reports the rows matched
UpdatePostedLost(tbl, id) == tbl

\* UPDATE <table> SET posted = 1 WHERE id = ?  (mark_quote_posted, mark_news_posted)
UpdatePosted(tbl, id) ==
  [i \in 1..Len(tbl) |-> IF i = id THEN [tbl[i] EXCEPT !.posted = 1] ELSE tbl[i]]

\* cursor.rowcount after the UPDATE: the rows the WHERE clause matched
RowCount(tbl, id) == IF id \in 1..Len(tbl) THEN 1 ELSE 0

\* mark_quote_posted / mark_news_posted: [table after the call, value returned]
MarkPosted(tbl, id, err) ==
  IF err
    THEN [tbl |-> tbl, ret |-> FALSE]
    ELSE [tbl |-> UpdatePosted(tbl, id), ret |-> RowCount(tbl, id) > 0]

QuoteFilters == {<< >>, <<"anime", "manga">>, <<"">>}

QuoteRows ==
  [author : {"A"}, category : CategoryNames \cup {NULL},
   quote_text : {"q1"}, posted : {0, 1}]

NewsRows == [posted : {0, 1}]

Tables(rows, n) == UNION {[1..k -> rows] : k \in 0..n}

InitQuoteDb ==
  /\ Quote \in Tables(QuoteRows, MaxQuotes)
  /\ News \in Tables(NewsRows, MaxNews)
  /\ content = << >>
  /\ last = NoCall
  /\ marked = [quote |-> {}, news |-> {}, metadata |-> << >>]
  /\ NoPipeline

mark_quote_posted(id, err) ==
  LET r == MarkPosted(Quote, id, err) IN
  /\ Quote' = r.tbl
  /\ last' = [NoCall EXCEPT !.op = "mark_quote_posted", !.id = id, !.err = err,
                            !.ok = r.ret, !.pre = Quote,
                            !.again = (id \in marked.quote)]
  /\ marked' = IF r.ret THEN [marked EXCEPT !.quote = @ \cup {id}] ELSE marked
  /\ UNCHANGED <<News, content, pipeline>>

mark_news_posted(id, err) ==
  LET r == MarkPosted(News, id, err) IN
  /\ News' = r.tbl
  /\ last' = [NoCall EXCEPT !.op = "mark_news_posted", !.id = id, !.err = err,
                            !.ok = r.ret, !.pre = News,
                            !.again = (id \in marked.news)]
  /\ marked' = IF r.ret THEN [marked EXCEPT !.news = @ \cup {id}] ELSE marked
  /\ UNCHANGED <<Quote, content, pipeline>>

get_random_unposted_quote(categories, err) ==
  /\ \E row \in GetRandomUnpostedQuote(Quote, categories, err) :
       last' = [NoCall EXCEPT !.op = "get_random_unposted_quote",
                              !.categories = categories, !.err = err,
                              !.row = row, !.pre = Quote]
  /\ UNCHANGED <<Quote, News, content, marked, pipeline>>

NextQuoteDb ==
  \/ \E id \in 1..(MaxQuotes + 1), err \in BOOLEAN : mark_quote_posted(id, err)
  \/ \E id \in 1..(MaxNews + 1), err \in BOOLEAN : mark_news_posted(id, err)
  \/ \E c \in QuoteFilters, err \in BOOLEAN : get_random_unposted_quote(c, err)

SpecQuoteDb == InitQuoteDb /\ [][NextQuoteDb]_vars

\* --- the category filter of get_random_unposted_quote

\* [nerd_quote] nerd_categories of the configuration
NerdCategories == <<"anime", "manga">>

\* category texts the filter is tried on
FilteredCategories == {"anime", "sports", "manga-comics", "Manga"}

FilteredQuoteRows ==
  [author : {"A"}, category : FilteredCategories, quote_text : {"q1"},
   posted : {0, 1}]

\* a Quote table filled up to its bound
InitQuoteFilter ==
  /\ Quote \in [1..MaxFilteredQuotes -> FilteredQuoteRows]
  /\ News = << >>
  /\ content = << >>
  /\ last = NoCall
  /\ marked = [quote |-> {}, news |-> {}, metadata |-> << >>]
  /\ NoPipeline

\* nerd_quote: get_random_unposted_quote(categories = nerd_categories)
NextQuoteFilter ==
  \E c \in {NerdCategories, <<"manga">>}, err \in BOOLEAN :
    get_random_unposted_quote(c, err)

SpecQuoteFilter == InitQuoteFilter /\ [][NextQuoteFilter]_vars

\* -------------------------------------------------------- ContentDatabase

\* Python truthiness of an optional text argument:  if content_type:
Truthy(x) == x # NULL /\ x # ""

\* a UNIQUE index that never rejects a row
UniqueConflictNever(tbl, title, ctype, module) == FALSE

\* UNIQUE(content_title, content_type, module_name): SQLite treats every NULL
\* as distinct, so a row conflicts only on three equal non-NULL values
UniqueConflict(tbl, title, ctype, module) ==
  \E i \in 1..Len(tbl) :
    /\ tbl[i].content_title = title
    /\ ctype # NULL /\ tbl[i].content_type = ctype
    /\ module # NULL /\ tbl[i].module_name = module

\* a uniqueness check that compares NULL like a value
UniqueConflictNullEqual(tbl, title, ctype, module) ==
  \E i \in 1..Len(tbl) :
    /\ tbl[i].content_title = title
    /\ tbl[i].content_type = ctype
    /\ tbl[i].module_name = module

\* sqlite3.IntegrityError of an INSERT: content_title NOT NULL, or the UNIQUE index
IntegrityError(tbl, title, ctype, module) ==
  title = NULL \/ UniqueConflict(tbl, title, ctype, module)

\* datetime.now() / CURRENT_TIMESTAMP as logical time: one tick per stored row
Now(tbl) == Len(tbl) + 1

\* a metadata payload is the sequence of its values, each value written as
\* the Python type it has; the JSON text is the sequence of the JSON types
\* json.dumps writes for them: a tuple is written as an array, a dict with int
\* keys as an object with string keys
JsonValue(v) ==
  CASE v = "tuple" -> "list"
    [] v = "dict_int_keys" -> "dict_str_keys"
    [] OTHER -> v

\* json.dumps(kwargs)
JsonDumps(kwargs) == [i \in 1..Len(kwargs) |-> JsonValue(kwargs[i])]

\* json.dumps raises TypeError: Object of type set is not JSON serializable
NotSerializable(kwargs) == \E i \in 1..Len(kwargs) : kwargs[i] = "set"

\* json.loads(text): arrays become lists, objects dicts with string keys
JsonLoads(text) == text

\* the metadata column holding SQL NULL; json.dumps writes no empty text
NoMetadata == << >>

\* json.dumps(kwargs) if kwargs else None
MetadataText(kwargs) == IF kwargs = << >> THEN NoMetadata ELSE JsonDumps(kwargs)

\* json.loads(row['metadata']) if row['metadata'] else {}
ReadMetadata(text) == IF text = NoMetadata THEN << >> ELSE JsonLoads(text)

\* mark_content_posted: INSERT ... VALUES (?, ?, ?, ?, ?, ?, 1, ?); the
\* TypeError of json.dumps is no sqlite3.Error and leaves the method
MarkContentPosted(tbl, title, url, category, ctype, module, kwargs, err) ==
  IF NotSerializable(kwargs)
    THEN [tbl |-> tbl, ret |-> FALSE, raised |-> TRUE]
  ELSE IF err \/ IntegrityError(tbl, title, ctype, module)
    THEN [tbl |-> tbl, ret |-> FALSE, raised |-> FALSE]
    ELSE [tbl |-> Append(tbl, [content_title |-> title, content_url |-> url,
                               content_type |-> ctype, category |-> category,
                               module_name |-> module, post_date |-> Now(tbl),
                               posted |-> 1, metadata |-> MetadataText(kwargs)]),
          ret |-> TRUE, raised |-> FALSE]

\* an is_content_posted that finds no row
IsContentPostedOnlyOnError(tbl, title, ctype, err) == err

\* an is_content_posted whose except branch answers False
IsContentPostedUnlessError(tbl, title, ctype, err) ==
  /\ ~err
  /\ \E i \in 1..Len(tbl) :
       /\ tbl[i].content_title = title
       /\ tbl[i].posted = 1
       /\ Truthy(ctype) => tbl[i].content_type = ctype

\* is_content_posted: COUNT(*) ... WHERE content_title = ? [AND content_type = ?]
\* AND posted = 1; a sqlite3.Error answers True
IsContentPosted(tbl, title, ctype, err) ==
  \/ err
  \/ \E i \in 1..Len(tbl) :
       /\ tbl[i].content_title = title
       /\ tbl[i].posted = 1
       /\ Truthy(ctype) => tbl[i].content_type = ctype

\* WHERE posted = 0 [AND content_type = ?] [AND category = ?]
ContentMatches(tbl, ctype, category) ==
  {i \in 1..Len(tbl) :
     /\ tbl[i].posted = 0
     /\ Truthy(ctype) => tbl[i].content_type = ctype
     /\ Truthy(category) => tbl[i].category = category}

\* get_random_unposted_content: the rows ORDER BY RANDOM() LIMIT 1 may return
\* (0 stands for None); a sqlite3.Error gives None
GetRandomUnpostedContent(tbl, ctype, category, err) ==
  IF err \/ ContentMatches(tbl, ctype, category) = {}
    THEN {0}
    ELSE ContentMatches(tbl, ctype, category)

\* titles the Wikipedia category lookup may hand out
ArticleTitles == {"t1", "t2"}
ContentTitles == {NULL, "t1", "t2"}
ContentTypes == {NULL, "article"}
ModuleNames == {NULL, "weekly_nerd_curiosities"}
ContentCategories == {NULL, "Manga"}

InitContentDb ==
  /\ Quote = << >>
  /\ News = << >>
  /\ content = << >>
  /\ last = NoCall
  /\ marked = [quote |-> {}, news |-> {}, metadata |-> << >>]
  /\ NoPipeline

\* create_schema: CREATE TABLE / INDEX IF NOT EXISTS and a commit; a
\* sqlite3.Error is printed and raised again
create_schema(err) ==
  /\ last' = [NoCall EXCEPT !.op = "create_schema", !.err = err, !.raised = err,
                            !.ok = ~err, !.pre = content]
  /\ UNCHANGED <<Quote, News, content, marked, pipeline>>

mark_content_posted(title, url, category, ctype, module, kwargs, err) ==
  LET r == MarkContentPosted(content, title, url, category, ctype, module, kwargs, err) IN
  /\ Len(r.tbl) <= MaxContent
  /\ content' = r.tbl
  /\ last' = [NoCall EXCEPT !.op = "mark_content_posted", !.title = title,
                            !.ctype = ctype, !.category = category,
                            !.module = module, !.err = err, !.ok = r.ret,
                            !.raised = r.raised, !.kwargs = kwargs,
                            !.pre = content,
                            !.again = UniqueConflictNullEqual(content, title, ctype, module)]
  /\ marked' = IF r.ret THEN [marked EXCEPT !.metadata = Append(@, kwargs)]
                         ELSE marked
  /\ UNCHANGED <<Quote, News, pipeline>>

is_content_posted(title, ctype, err) ==
  /\ last' = [NoCall EXCEPT !.op = "is_content_posted", !.title = title,
                            !.ctype = ctype, !.err = err,
                            !.ok = IsContentPosted(content, title, ctype, err),
                            !.pre = content]
  /\ UNCHANGED <<Quote, News, content, marked, pipeline>>

get_random_unposted_content(ctype, category, err) ==
  /\ \E row \in GetRandomUnpostedContent(content, ctype, category, err) :
       last' = [NoCall EXCEPT !.op = "get_random_unposted_content",
                              !.ctype = ctype, !.category = category,
                              !.err = err, !.row = row, !.pre = content]
  /\ UNCHANGED <<Quote, News, content, marked, pipeline>>

NextContentDb ==
  \/ \E err \in BOOLEAN : create_schema(err)
  \/ \E title \in ContentTitles, category \in ContentCategories,
        ctype \in ContentTypes, module \in ModuleNames, err \in BOOLEAN :
       mark_content_posted(title, NULL, category, ctype, module, << >>, err)
  \/ \E title \in ContentTitles, ctype \in ContentTypes \cup {""}, err \in BOOLEAN :
       is_content_posted(title, ctype, err)
  \/ \E ctype \in ContentTypes \cup {""}, category \in ContentCategories \cup {""},
        err \in BOOLEAN :
       get_random_unposted_content(ctype, category, err)

SpecContentDb == InitContentDb /\ [][NextContentDb]_vars

\* --- the audit queries of ContentDatabase

\* the dictionary the queries build of a row; row is the place in the table
\* the item was read from
ContentItem(tbl, i) ==
  [row |-> i, title |-> tbl[i].content_title, type |-> tbl[i].content_type,
   category |-> tbl[i].category, module |-> tbl[i].module_name,
   post_date |-> tbl[i].post_date, metadata |-> ReadMetadata(tbl[i].metadata)]

\* the rows of a set, ORDER BY post_date DESC: the latest stored row first
RECURSIVE ItemsOf(_, _, _)
ItemsOf(tbl, rows, i) ==
  IF i = 0 THEN << >>
  ELSE IF i \in rows THEN <<ContentItem(tbl, i)>> \o ItemsOf(tbl, rows, i - 1)
  ELSE ItemsOf(tbl, rows, i - 1)

\* get_content_by_type: WHERE content_type = ?; a sqlite3.Error gives []
GetContentByType(tbl, ctype, err) ==
  IF err THEN << >>
  ELSE ItemsOf(tbl, {i \in 1..Len(tbl) : ctype # NULL /\ tbl[i].content_type = ctype},
               Len(tbl))

\* get_recent_posts: WHERE posted = 1 [AND content_type = ?] AND
\* datetime(post_date) >= datetime('now', '-N days'); a sqlite3.Error gives []
GetRecentPosts(tbl, days, ctype, err) ==
  IF err THEN << >>
  ELSE ItemsOf(tbl, {i \in 1..Len(tbl) :
                       /\ tbl[i].posted = 1
                       /\ Truthy(ctype) => tbl[i].content_type = ctype
                       /\ tbl[i].post_date >= Now(tbl) - days},
               Len(tbl))

\* get_category_stats: SELECT category, COUNT(*) ... WHERE posted = 1
\* [AND content_type = ?] AND category IS NOT NULL GROUP BY category; a
\* sqlite3.Error gives {}
GetCategoryStats(tbl, ctype, err) ==
  IF err THEN << >>
  ELSE LET rows == {i \in 1..Len(tbl) :
                      /\ tbl[i].posted = 1
                      /\ Truthy(ctype) => tbl[i].content_type = ctype
                      /\ tbl[i].category # NULL}
       IN [c \in {tbl[i].category : i \in rows} |->
             Cardinality({i \in rows : tbl[i].category = c})]

get_content_by_type(ctype, err) ==
  /\ last' = [NoCall EXCEPT !.op = "get_content_by_type", !.ctype = ctype,
                            !.err = err, !.pre = content,
                            !.result = GetContentByType(content, ctype, err)]
  /\ UNCHANGED <<Quote, News, content, marked, pipeline>>

get_recent_posts(days, ctype, err) ==
  /\ last' = [NoCall EXCEPT !.op = "get_recent_posts", !.ctype = ctype,
                            !.days = days, !.err = err, !.pre = content,
                            !.result = GetRecentPosts(content, days, ctype, err)]
  /\ UNCHANGED <<Quote, News, content, marked, pipeline>>

\* a get_category_stats that writes: it clears the posted flag of the rows
get_category_stats_clearing(ctype, err) ==
  /\ last' = [NoCall EXCEPT !.op = "get_category_stats", !.ctype = ctype,
                            !.err = err, !.pre = content,
                            !.again = (last.op = "get_category_stats"
                                       /\ last.ctype = ctype /\ ~last.err),
                            !.result =
                               IF last.op = "get_category_stats"
                                 THEN <<GetCategoryStats(content, ctype, err),
                                        last.result[1]>>
                                 ELSE <<GetCategoryStats(content, ctype, err)>>]
  /\ content' = [i \in 1..Len(content) |-> [content[i] EXCEPT !.posted = 0]]
  /\ UNCHANGED <<Quote, News, marked, pipeline>>

\* get_category_stats; result keeps the map returned and, when the call before
\* was the same query, the map that call returned
get_category_stats(ctype, err) ==
  /\ last' = [NoCall EXCEPT !.op = "get_category_stats", !.ctype = ctype,
                            !.err = err, !.pre = content,
                            !.again = (last.op = "get_category_stats"
                                       /\ last.ctype = ctype /\ ~last.err),
                            !.result =
                               IF last.op = "get_category_stats"
                                 THEN <<GetCategoryStats(content, ctype, err),
                                        last.result[1]>>
                                 ELSE <<GetCategoryStats(content, ctype, err)>>]
  /\ UNCHANGED <<Quote, News, content, marked, pipeline>>

\* the keyword arguments a caller may pass as metadata
MetadataPayloads == {<< >>, <<"str">>, <<"int", "tuple">>, <<"set">>}

InitContentRead ==
  /\ Quote = << >>
  /\ News = << >>
  /\ content = << >>
  /\ last = NoCall
  /\ marked = [quote |-> {}, news |-> {}, metadata |-> << >>]
  /\ NoPipeline

NextContentRead ==
  \/ \E title \in ArticleTitles, category \in ContentCategories,
        kwargs \in MetadataPayloads, err \in BOOLEAN :
       mark_content_posted(title, NULL, category, "article",
                           "weekly_nerd_curiosities", kwargs, err)
  \/ \E ctype \in ContentTypes, err \in BOOLEAN : get_content_by_type(ctype, err)
  \/ \E days \in 1..MaxContent, ctype \in ContentTypes, err \in BOOLEAN :
       get_recent_posts(days, ctype, err)
  \/ \E ctype \in ContentTypes, err \in BOOLEAN : get_category_stats(ctype, err)
  \/ \E title \in ArticleTitles, err \in BOOLEAN :
       is_content_posted(title, "article", err)
  \/ \E err \in BOOLEAN : get_random_unposted_content("article", NULL, err)

SpecContentRead == InitContentRead /\ [][NextContentRead]_vars

\* ------------------------------------- QuoteDatabase.migrate_to_content_database

\* content_title = f"Quote by {author}: {quote_preview}"; the modelled quote
\* texts are shorter than the 50 characters the preview keeps
QuoteContentTitle(row) == "Quote by " \o row.author \o ": " \o row.quote_text

\* metadata = {'original_quote_id', 'author', 'full_quote_text'}
QuoteMetadata(id, row) == <<"int", "str", "str">>

\* the direct INSERT of an unposted quote: (content_title, content_type, category,
\* module_name, posted, metadata) VALUES (?, ?, ?, ?, 0, ?); content_url stays
\* NULL and post_date takes the column default CURRENT_TIMESTAMP
InsertUnposted(tbl, title, category, module, metadata) ==
  IF IntegrityError(tbl, title, "quote", module)
    THEN tbl
    ELSE Append(tbl, [content_title |-> title, content_url |-> NULL,
                      content_type |-> "quote", category |-> category,
                      module_name |-> module, post_date |-> Now(tbl),
                      posted |-> 0, metadata |-> JsonDumps(metadata)])

\* the loop over the rows of Quote, from row i on
RECURSIVE MigrateFrom(_, _, _, _)
MigrateFrom(quotes, tbl, module, i) ==
  IF i > Len(quotes)
    THEN tbl
    ELSE LET row == quotes[i]
             next == IF row.posted # 0
                       THEN MarkContentPosted(tbl, QuoteContentTitle(row), NULL,
                                              row.category, "quote", module,
                                              QuoteMetadata(i, row), FALSE).tbl
                       ELSE InsertUnposted(tbl, QuoteContentTitle(row), row.category,
                                           module, QuoteMetadata(i, row))
         IN MigrateFrom(quotes, next, module, i + 1)

\* migrate_to_content_database: [table after the call, value returned]; a
\* sqlite3.Error of the SELECT returns False before any row is written
MigrateToContentDatabase(quotes, tbl, module, err) ==
  IF err
    THEN [tbl |-> tbl, ret |-> FALSE]
    ELSE [tbl |-> MigrateFrom(quotes, tbl, module, 1), ret |-> TRUE]

MigrateQuoteRows ==
  [author : {"A"}, category : {NULL, "Manga"},
   quote_text : {"q1", "q2"}, posted : {0, 1}]

InitMigrate ==
  /\ Quote \in Tables(MigrateQuoteRows, MaxQuotes)
  /\ News = << >>
  /\ content = << >>
  /\ last = NoCall
  /\ marked = [quote |-> {}, news |-> {}, metadata |-> << >>]
  /\ NoPipeline

migrate_to_content_database(module, err) ==
  LET r == MigrateToContentDatabase(Quote, content, module, err) IN
  /\ content' = r.tbl
  /\ last' = [NoCall EXCEPT !.op = "migrate_to_content_database",
                            !.module = module, !.err = err, !.ok = r.ret]
  /\ UNCHANGED <<Quote, News, marked, pipeline>>

NextMigrate ==
  \/ \E err \in BOOLEAN : migrate_to_content_database("weekly_quote", err)
  \/ \E id \in 1..MaxQuotes, err \in BOOLEAN : mark_quote_posted(id, err)
  \/ \E c \in QuoteFilters, err \in BOOLEAN : get_random_unposted_quote(c, err)
  \/ \E ctype \in {NULL, "", "quote", "article"},
        category \in ContentCategories \cup {""}, err \in BOOLEAN :
       get_random_unposted_content(ctype, category, err)

SpecMigrate == InitMigrate /\ [][NextMigrate]_vars

\* ------------------------------------------------------------ pipeline runs

\* weekly_quote: excluded_categories, used as the LIKE list of the selection
ExcludedCategories == <<"anime", "comics", "cartoon", "manga">>
\* what one chat.send_message of the Gemini client gives: a text that passes
\* validate_generated_post, a text that does not, no text, or an exception
LlmResults == {"valid", "invalid", "none", "exception"}
\* what one requests.post to the Bot API gives: HTTP 200 with ok = true,
\* HTTP 200 with ok = false, another HTTP status, or a RequestException
TelegramResults == {"ok", "not_ok", "http_error", "network_error"}

\* self.retry_attempts = max(1, retry_attempts)
TelegramAttempts == IF RetryAttempts > 1 THEN RetryAttempts ELSE 1

\* a process that runs no pipeline yet
Idle ==
  [module |-> NULL, pc |-> "idle", quote_id |-> 0, article |-> NULL,
   image |-> NULL, part |-> "photo",
   attempt |-> 0, request |-> 0, checks |-> "none",
   generator_called |-> FALSE, generation_exhausted |-> FALSE,
   publisher_called |-> FALSE, sent |-> 0, delivered |-> FALSE, response |-> NULL,
   mark_called |-> FALSE, recorded |-> FALSE, conn_open |-> FALSE,
   outcome |-> NULL, stage |-> NULL, exit_code |-> 0,
   at_start |-> [Quote |-> << >>, content |-> << >>]]

\* a run that reports nothing and stays in the phase it is in
FinishNever(rec, outcome, exit_code) == rec

\* the run ends: its last report, which is the one of the phase it is in, and
\* the exit status of the process
Finish(rec, outcome, exit_code) ==
  [rec EXCEPT !.pc = "done", !.outcome = outcome, !.stage = rec.pc,
              !.exit_code = exit_code]

\* sqlite3.connect: the run holds a connection to the store
Open(rec) == [rec EXCEPT !.conn_open = TRUE]

\* conn.close(), or close() of the database object
Close(rec) == [rec EXCEPT !.conn_open = FALSE]

\* one more post of the item on the channel
Post(posts, kind, item) ==
  [posts EXCEPT ![kind] = [@ EXCEPT ![item] = @ + 1]]

\* a generate_text that hands back a result when its last attempt raised
GenerateTextSwallowsLastError(request, res) ==
  IF res = "exception" /\ request < LlmMaxRetries - 1 THEN "retry" ELSE "return"

\* LLMInterface.generate_text, one pass of the loop: return response.text,
\* sleep and try again, or raise after the last attempt
GenerateText(request, res) ==
  IF res # "exception" THEN "return"
  ELSE IF request < LlmMaxRetries - 1 THEN "retry"
  ELSE "raise"

\* TelegramInterface._make_request_with_retry, one pass of the loop: HTTP 200
\* returns response.json() whatever it holds
MakeRequestWithRetry(request, res) ==
  IF res \in {"ok", "not_ok"} THEN "return"
  ELSE IF request < TelegramAttempts - 1 THEN "retry"
  ELSE "raise"

\* what main of weekly_nerd_curiosities reports for a publish_result
MainReport(success, telegram_response, db_updated) ==
  IF success THEN "success"
  ELSE IF telegram_response # NULL /\ ~db_updated THEN "published_not_recorded"
  ELSE "failed"

\* the quotes a run may find: of a nerd category or of another one
RunQuoteRows ==
  [author : {"A"}, category : CategoryNames, quote_text : {"q1"}, posted : {0, 1}]

InitRun ==
  /\ Quote \in Tables(RunQuoteRows, MaxQuotes)
  /\ News = << >>
  /\ content = << >>
  /\ last = NoCall
  /\ marked = [quote |-> {}, news |-> {}, metadata |-> << >>]
  /\ run = [p \in {1} |-> Idle]
  /\ channel = [quote |-> [i \in 1..Len(Quote) |-> 0],
                article |-> [t \in ArticleTitles |-> 0]]
  /\ unrecorded = [quote |-> [i \in 1..Len(Quote) |-> 0],
                   article |-> [t \in ArticleTitles |-> 0]]
  /\ runsStarted = 0
  /\ images = NoImages
  /\ gen = NoGen
  /\ req = NoReq

\* python -m src.<module>.main, started when no other run is under way
StartRun(p, module) ==
  /\ \A q \in DOMAIN run : run[q].pc \in {"idle", "done"}
  /\ runsStarted < MaxRuns
  /\ runsStarted' = runsStarted + 1
  /\ run' = [run EXCEPT ![p] =
               [Idle EXCEPT !.module = module,
                            !.pc = IF module \in {"weekly_quote", "weekly_posting_image"}
                                    THEN "select" ELSE "setup",
                            !.at_start = [Quote |-> Quote, content |-> content]]]
  /\ UNCHANGED <<store, channel, unrecorded, images, gen, req>>

\* Phase 1 of main: the first queries on the database; nerd_quote re-raises a
\* sqlite3.Error through its finally block, which closes quote_db;
\* weekly_nerd_curiosities logs it and returns, its connection being that of
\* a with block
setup(p, err) ==
  /\ run[p].pc = "setup"
  /\ run' = [run EXCEPT ![p] =
               IF run[p].module = "nerd_quote"
                 THEN IF err THEN Close(Finish(Open(@), "failed", 1))
                             ELSE [Open(@) EXCEPT !.pc = "select"]
                 ELSE IF err THEN Finish(@, "failed", 0)
                             ELSE [@ EXCEPT !.pc = "discover"]]
  /\ UNCHANGED <<store, channel, unrecorded, runsStarted, images, gen, req>>

\* --- nerd_quote

\* Phase 2: get_random_unposted_quote(categories = nerd_categories); no quote
\* is a warning and a plain return
nerd_quote_select(p, err) ==
  /\ run[p].module = "nerd_quote"
  /\ run[p].pc = "select"
  /\ \E id \in GetRandomUnpostedQuote(Quote, NerdCategories, err) :
       run' = [run EXCEPT ![p] =
                 IF id = 0
                   THEN Close(Finish(@, "no_candidate", 0))
                   ELSE [@ EXCEPT !.pc = "generate", !.quote_id = id]]
  /\ UNCHANGED <<store, channel, unrecorded, runsStarted, images, gen, req>>

\* Phase 3: LLMInterface() and generate_text; any exception, len(None)
\* included, is logged and re-raised
nerd_quote_generate(p, init_ok, res) ==
  /\ run[p].module = "nerd_quote"
  /\ run[p].pc = "generate"
  /\ init_ok \/ run[p].request = 0
  /\ run' = [run EXCEPT ![p] =
       IF ~init_ok THEN Close(Finish(@, "failed", 1))
       ELSE LET step == GenerateText(run[p].request, res)
                rec == [run[p] EXCEPT !.generator_called = TRUE,
                                      !.generation_exhausted =
                                         /\ res = "exception"
                                         /\ run[p].request >= LlmMaxRetries - 1]
            IN IF step = "retry" THEN [rec EXCEPT !.request = @ + 1]
               ELSE IF step = "raise" \/ res = "none"
                 THEN Close(Finish(rec, "failed", 1))
               ELSE [rec EXCEPT !.pc = "publish", !.request = 0]]
  /\ UNCHANGED <<store, channel, unrecorded, runsStarted, images, gen, req>>

\* Phase 4: telegram_bot.send_message(telegram_post); the value returned is
\* not looked at, an exception is logged and re-raised
nerd_quote_publish(p, res) ==
  /\ run[p].module = "nerd_quote"
  /\ run[p].pc = "publish"
  /\ LET step == MakeRequestWithRetry(run[p].request, res)
         rec == [run[p] EXCEPT !.publisher_called = TRUE]
     IN /\ run' = [run EXCEPT ![p] =
                IF step = "retry" THEN [rec EXCEPT !.request = @ + 1]
                ELSE IF step = "raise" THEN Close(Finish(rec, "failed", 1))
                ELSE [rec EXCEPT !.pc = "record", !.response = res,
                                 !.delivered = (res = "ok")]]
        /\ channel' = IF res = "ok" THEN Post(channel, "quote", rec.quote_id)
                                    ELSE channel
  /\ UNCHANGED <<store, unrecorded, runsStarted, images, gen, req>>

\* Phase 5: mark_quote_posted(quote_id); False and exceptions are logged, then
\* the run logs "completed successfully" and returns
nerd_quote_record(p, err) ==
  /\ run[p].module = "nerd_quote"
  /\ run[p].pc = "record"
  /\ LET m == MarkPosted(Quote, run[p].quote_id, err) IN
       /\ Quote' = m.tbl
       /\ run' = [run EXCEPT ![p] =
                    Close(Finish([@ EXCEPT !.mark_called = TRUE, !.recorded = m.ret],
                                 "success", 0))]
       /\ unrecorded' = IF run[p].delivered /\ ~m.ret
                          THEN Post(unrecorded, "quote", run[p].quote_id)
                          ELSE unrecorded
  /\ UNCHANGED <<News, content, last, marked, channel, runsStarted, images, gen, req>>

\* --- weekly_quote (USE_QUOTE_DATABASE = False)

\* sqlite3.connect and the legacy SELECT; no record is a print, conn.close()
\* and exit(1); a sqlite3.Error is not caught and ends the script where it is
weekly_quote_select(p, err) ==
  /\ run[p].module = "weekly_quote"
  /\ run[p].pc = "select"
  /\ \E id \in GetRandomUnpostedQuote(Quote, ExcludedCategories, FALSE) :
       run' = [run EXCEPT ![p] =
                 IF err THEN Finish(Open(@), "crashed", 1)
                 ELSE IF id = 0 THEN Close(Finish(Open(@), "no_candidate", 1))
                 ELSE [Open(@) EXCEPT !.pc = "generate", !.quote_id = id]]
  /\ UNCHANGED <<store, channel, unrecorded, runsStarted, images, gen, req>>

\* llm.LLMInterface(env_path = ...): __init__ has no such parameter, TypeError;
\* the script ends before its conn.close()
weekly_quote_generate(p) ==
  /\ run[p].module = "weekly_quote"
  /\ run[p].pc = "generate"
  /\ run' = [run EXCEPT ![p] = Finish(@, "crashed", 1)]
  /\ UNCHANGED <<store, channel, unrecorded, runsStarted, images, gen, req>>

\* --- weekly_nerd_curiosities

\* get_random_nerd_article, one pass of the loop: a title of a random
\* category, is_content_posted(title, 'article'), the content and its length;
\* checks tells whether the duplicate checks made so far all met a storage
\* error ("failed") or one of them was answered by the query ("answered")
get_random_nerd_article(p, title, err, suitable) ==
  /\ run[p].module = "weekly_nerd_curiosities"
  /\ run[p].pc = "discover"
  /\ LET rec == [run[p] EXCEPT !.checks =
                   IF title = NULL \/ @ = "answered" THEN @
                   ELSE IF err THEN "failed" ELSE "answered"]
     IN run' = [run EXCEPT ![p] =
          IF title # NULL /\ ~IsContentPosted(content, title, "article", err)
                          /\ suitable
            THEN [rec EXCEPT !.pc = "generate", !.article = title, !.attempt = 0]
          ELSE IF rec.attempt + 1 < DiscoveryMaxRetries
            THEN [rec EXCEPT !.attempt = @ + 1]
          ELSE Finish(rec, "failed", 0)]
  /\ UNCHANGED <<store, channel, unrecorded, runsStarted, images, gen, req>>

\* generate_nerd_post, one generate_text request of one attempt; None after
\* the attempts makes main log the failure and return
generate_nerd_post(p, init_ok, res) ==
  /\ run[p].module = "weekly_nerd_curiosities"
  /\ run[p].pc = "generate"
  /\ init_ok \/ (run[p].request = 0 /\ run[p].attempt = 0)
  /\ run' = [run EXCEPT ![p] =
       IF ~init_ok THEN Finish(@, "failed", 0)
       ELSE LET step == GenerateText(run[p].request, res)
                last_attempt == run[p].attempt + 1 >= RetryAttempts
                rec == [run[p] EXCEPT !.generator_called = TRUE,
                                      !.generation_exhausted =
                                         /\ last_attempt
                                         /\ \/ res \in {"invalid", "none"}
                                            \/ /\ res = "exception"
                                               /\ run[p].request >= LlmMaxRetries - 1]
            IN IF step = "retry" THEN [rec EXCEPT !.request = @ + 1]
               ELSE IF step = "return" /\ res \notin {"invalid", "none"}
                 THEN [rec EXCEPT !.pc = "publish", !.attempt = 0, !.request = 0]
               ELSE IF ~last_attempt
                 THEN [rec EXCEPT !.attempt = @ + 1, !.request = 0]
               ELSE Finish(rec, "failed", 0)]
  /\ UNCHANGED <<store, channel, unrecorded, runsStarted, images, gen, req>>

\* publish_to_telegram, one request of one attempt; sent counts the
\* requests.post calls of the call under way and is dropped with the call's
\* frame when it returns; success is a response
\* with ok; after the last attempt publish_and_update_database returns the
\* failure with the last response and main reports it
publish_to_telegram(p, res) ==
  /\ run[p].module = "weekly_nerd_curiosities"
  /\ run[p].pc = "publish"
  /\ LET step == MakeRequestWithRetry(run[p].request, res)
         rec == [run[p] EXCEPT !.publisher_called = TRUE, !.sent = @ + 1]
         last_attempt == rec.attempt + 1 >= RetryAttempts
         response == IF step = "return" THEN res ELSE NULL
     IN /\ run' = [run EXCEPT ![p] =
                IF step = "retry" THEN [rec EXCEPT !.request = @ + 1]
                ELSE IF res = "ok"
                  THEN [rec EXCEPT !.pc = "record", !.response = res,
                                   !.delivered = TRUE, !.sent = 0]
                ELSE IF ~last_attempt
                  THEN [rec EXCEPT !.attempt = @ + 1, !.request = 0]
                ELSE Finish([rec EXCEPT !.response = response, !.sent = 0],
                            MainReport(FALSE, response, FALSE), 0)]
        /\ channel' = IF res = "ok" THEN Post(channel, "article", rec.article)
                                    ELSE channel
  /\ UNCHANGED <<store, unrecorded, runsStarted, images, gen, req>>

\* publish_and_update_database, step 2: mark_content_posted on ArticleHistory
\* once the publish has succeeded; main reports the result
publish_and_update_database(p, err) ==
  /\ run[p].module = "weekly_nerd_curiosities"
  /\ run[p].pc = "record"
  /\ LET m == MarkContentPosted(content, run[p].article, "url", "Manga", "article",
                                "weekly_nerd_curiosities", << >>, err) IN
       /\ content' = m.tbl
       /\ run' = [run EXCEPT ![p] =
                    Finish([@ EXCEPT !.mark_called = TRUE, !.recorded = m.ret],
                           MainReport(m.ret, run[p].response, m.ret), 0)]
       /\ unrecorded' = IF ~m.ret THEN Post(unrecorded, "article", run[p].article)
                                  ELSE unrecorded
  /\ UNCHANGED <<Quote, News, last, marked, channel, runsStarted, images, gen, req>>

NextRun ==
  \/ \E p \in DOMAIN run :
       \E module \in {"nerd_quote", "weekly_nerd_curiosities", "weekly_quote"} :
         StartRun(p, module)
  \/ \E p \in DOMAIN run, err \in BOOLEAN : setup(p, err)
  \/ \E p \in DOMAIN run, err \in BOOLEAN : nerd_quote_select(p, err)
  \/ \E p \in DOMAIN run, init_ok \in BOOLEAN, res \in LlmResults :
       nerd_quote_generate(p, init_ok, res)
  \/ \E p \in DOMAIN run, res \in TelegramResults : nerd_quote_publish(p, res)
  \/ \E p \in DOMAIN run, err \in BOOLEAN : nerd_quote_record(p, err)
  \/ \E p \in DOMAIN run, err \in BOOLEAN : weekly_quote_select(p, err)
  \/ \E p \in DOMAIN run : weekly_quote_generate(p)
  \/ \E p \in DOMAIN run, title \in ArticleTitles \cup {NULL},
        err \in BOOLEAN, suitable \in BOOLEAN :
       get_random_nerd_article(p, title, err, suitable)
  \/ \E p \in DOMAIN run, init_ok \in BOOLEAN, res \in LlmResults :
       generate_nerd_post(p, init_ok, res)
  \/ \E p \in DOMAIN run, res \in TelegramResults : publish_to_telegram(p, res)
  \/ \E p \in DOMAIN run, err \in BOOLEAN : publish_and_update_database(p, err)

SpecRun == InitRun /\ [][NextRun]_vars

\* ----------------------------------------------------------- concurrent runs

\* two processes, started by an accidental double invocation
Procs == {1, 2}

\* the quotes two overlapping runs may find: of a nerd category, posted or not
ConcurrentQuoteRows ==
  [author : {"A"}, category : {"Manga"}, quote_text : {"q1"}, posted : {0, 1}]

InitConcurrent ==
  /\ Quote \in Tables(ConcurrentQuoteRows, MaxQuotes)
  /\ News = << >>
  /\ content = << >>
  /\ last = NoCall
  /\ marked = [quote |-> {}, news |-> {}, metadata |-> << >>]
  /\ run = [p \in Procs |-> Idle]
  /\ channel = [quote |-> [i \in 1..Len(Quote) |-> 0],
                article |-> [t \in ArticleTitles |-> 0]]
  /\ unrecorded = [quote |-> [i \in 1..Len(Quote) |-> 0],
                   article |-> [t \in ArticleTitles |-> 0]]
  /\ runsStarted = 0
  /\ images = NoImages
  /\ gen = NoGen
  /\ req = NoReq

\* python -m src.<module>.main while another run of the same pipeline may be
\* under way; every process runs main once
StartConcurrent(p, module) ==
  /\ run[p].pc = "idle"
  /\ \A q \in DOMAIN run : run[q].module \in {NULL, module}
  /\ runsStarted' = runsStarted + 1
  /\ run' = [run EXCEPT ![p] =
               [Idle EXCEPT !.module = module, !.pc = "setup",
                            !.at_start = [Quote |-> Quote, content |-> content]]]
  /\ UNCHANGED <<store, channel, unrecorded, images, gen, req>>

NextConcurrent ==
  \/ \E p \in DOMAIN run :
       \E module \in {"nerd_quote", "weekly_nerd_curiosities"} :
         StartConcurrent(p, module)
  \/ \E p \in DOMAIN run, err \in BOOLEAN : setup(p, err)
  \/ \E p \in DOMAIN run, err \in BOOLEAN : nerd_quote_select(p, err)
  \/ \E p \in DOMAIN run, init_ok \in BOOLEAN, res \in LlmResults :
       nerd_quote_generate(p, init_ok, res)
  \/ \E p \in DOMAIN run, res \in TelegramResults : nerd_quote_publish(p, res)
  \/ \E p \in DOMAIN run, err \in BOOLEAN : nerd_quote_record(p, err)
  \/ \E p \in DOMAIN run, title \in ArticleTitles \cup {NULL},
        err \in BOOLEAN, suitable \in BOOLEAN :
       get_random_nerd_article(p, title, err, suitable)
  \/ \E p \in DOMAIN run, init_ok \in BOOLEAN, res \in LlmResults :
       generate_nerd_post(p, init_ok, res)
  \/ \E p \in DOMAIN run, res \in TelegramResults : publish_to_telegram(p, res)
  \/ \E p \in DOMAIN run, err \in BOOLEAN : publish_and_update_database(p, err)

SpecConcurrent == InitConcurrent /\ [][NextConcurrent]_vars

\* ------------------------------------------------------- runs to their end

\* the database files of the runs that are followed to their end: the quotes
\* are of a category every pipeline selects from, posted or not
InitRunFair ==
  /\ Quote \in Tables(ConcurrentQuoteRows, MaxQuotes)
  /\ News = << >>
  /\ content = << >>
  /\ last = NoCall
  /\ marked = [quote |-> {}, news |-> {}, metadata |-> << >>]
  /\ run = [p \in {1} |-> Idle]
  /\ channel = [quote |-> [i \in 1..Len(Quote) |-> 0],
                article |-> [t \in ArticleTitles |-> 0]]
  /\ unrecorded = [quote |-> [i \in 1..Len(Quote) |-> 0],
                   article |-> [t \in ArticleTitles |-> 0]]
  /\ runsStarted = 0
  /\ images = NoImages
  /\ gen = NoGen
  /\ req = NoReq

\* every call to a database, to Gemini or to Telegram returns or raises, and
\* the interpreter goes on with the next statement
SpecRunFair == InitRunFair /\ [][NextRun]_vars /\ WF_vars(NextRun)

\* ------------------------------------------------ the generated post's text

\* post_length_min and post_length_max of validate_generated_post
post_length_min == 50
post_length_max == 450

\* italian_indicators of validate_generated_post
ItalianIndicators ==
  {"è", "à", "ì", "ò", "ù", "che", "del", "della", "di", "da", "in", "con", "per"}

\* the letters a modelled text holds apart from its filling: none, a word of
\* the list, the same word in capitals, a capital accented letter
Letters == {"", "che", "CHE", "È"}

\* lengths of a text without its surrounding white space, around the limits
CoreLengths ==
  {0, post_length_min - 1, post_length_min, post_length_max, post_length_max + 1}

\* the empty string
EmptyText ==
  [lead |-> 0, core |-> 0, trail |-> 0, hash |-> FALSE, letters |-> "",
   error |-> FALSE]

\* texts Gemini may answer: white space before and after, the characters
\* between, whether a '#' is among them, the letters, and whether they begin
\* with "An error occurred"
GeneratedTexts ==
  {t \in [lead : 0..1, core : CoreLengths, trail : 0..1, hash : BOOLEAN,
          letters : Letters, error : BOOLEAN] :
     t.core = 0 => (~t.hash /\ t.letters = "" /\ ~t.error)}

\* len(text)
Length(t) == t.lead + t.core + t.trail

\* text.strip()
Strip(t) == [t EXCEPT !.lead = 0, !.trail = 0]

\* the letters of text.lower()
LowerCase(letters) ==
  IF letters = "CHE" THEN "che" ELSE IF letters = "È" THEN "è" ELSE letters

\* text.startswith("An error occurred")
StartsWithError(t) == t.error /\ t.lead = 0

\* a validate_generated_post without its hashtag check
ValidateGeneratedPostNoHashtag(text) ==
  /\ Length(Strip(text)) >= post_length_min
  /\ Length(Strip(text)) <= post_length_max
  /\ LowerCase(Strip(text).letters) \in ItalianIndicators

\* validate_generated_post: is_valid; empty after strip, too short, too long,
\* no indicator in content.lower(), no '#' are the failures
ValidateGeneratedPost(text) ==
  /\ Length(Strip(text)) # 0
  /\ Length(Strip(text)) >= post_length_min
  /\ Length(Strip(text)) <= post_length_max
  /\ LowerCase(Strip(text).letters) \in ItalianIndicators
  /\ Strip(text).hash

\* what one llm_interface.generate_text call of generate_nerd_post gives
GenerateTextOutcomes == {"text", "none", "exception"}

\* generate_nerd_post is called with an article: gen holds its loop, the
\* generated_content of the last attempt, the 'content' of the dict returned
\* and whether main handed it to publish_and_update_database
InitPost ==
  /\ Quote = << >>
  /\ News = << >>
  /\ content = << >>
  /\ last = NoCall
  /\ marked = [quote |-> {}, news |-> {}, metadata |-> << >>]
  /\ run = << >>
  /\ channel = [quote |-> << >>, article |-> << >>]
  /\ unrecorded = [quote |-> << >>, article |-> << >>]
  /\ runsStarted = 0
  /\ images = NoImages
  /\ \E n \in 0..RetryAttempts :
       gen = [pc |-> "generate", retry_attempts |-> n, attempt |-> 0,
              generated_content |-> EmptyText, post |-> EmptyText,
              handed |-> FALSE]
  /\ req = NoReq

\* for attempt in range(retry_attempts), one pass: an exception, an empty or
\* error answer and a text that fails validation go on with the next pass; a
\* valid text is returned stripped
generate_nerd_post_attempt(outcome, text) ==
  /\ gen.pc = "generate"
  /\ gen.attempt < gen.retry_attempts
  /\ outcome # "text" => text = EmptyText
  /\ LET rec == [gen EXCEPT !.attempt = @ + 1,
                            !.generated_content =
                               IF outcome = "text" THEN text ELSE @]
     IN gen' = IF outcome = "exception" THEN rec
               ELSE IF outcome = "none" \/ Length(text) = 0
                                       \/ StartsWithError(text) THEN rec
               ELSE IF ValidateGeneratedPost(text)
                 THEN [rec EXCEPT !.pc = "publish", !.post = Strip(text)]
               ELSE rec
  /\ UNCHANGED <<store, run, channel, unrecorded, runsStarted, images, req>>

\* the loop is over: return None, and main logs the failure and returns
generate_nerd_post_none ==
  /\ gen.pc = "generate"
  /\ gen.attempt >= gen.retry_attempts
  /\ gen' = [gen EXCEPT !.pc = "failed"]
  /\ UNCHANGED <<store, run, channel, unrecorded, runsStarted, images, req>>

\* Phase 4 of main: publish_and_update_database(post_data) passes
\* post_data['content'] to publish_to_telegram, and that to send_message
main_publish_post ==
  /\ gen.pc = "publish"
  /\ gen' = [gen EXCEPT !.pc = "handed", !.handed = TRUE]
  /\ UNCHANGED <<store, run, channel, unrecorded, runsStarted, images, req>>

NextPost ==
  \/ \E outcome \in GenerateTextOutcomes, text \in GeneratedTexts :
       generate_nerd_post_attempt(outcome, text)
  \/ generate_nerd_post_none
  \/ main_publish_post

SpecPost == InitPost /\ [][NextPost]_vars

\* ------------------------------------------------------ weekly_posting_image

\* files the pending folder may hold
ImageNames == {"i1", "i2"}

\* the pending folder sorted by os.path.getmtime: no file twice
Folders(n) ==
  {f \in UNION {[1..k -> ImageNames] : k \in 0..n} :
     \A a, b \in 1..Len(f) : a # b => f[a] # f[b]}

\* the folder without the file
Remove(folder, name) == SelectSeq(folder, LAMBDA f : f # name)

InitImage ==
  /\ Quote = << >>
  /\ News = << >>
  /\ content = << >>
  /\ last = NoCall
  /\ marked = [quote |-> {}, news |-> {}, metadata |-> << >>]
  /\ run = [p \in {1} |-> Idle]
  /\ channel = [photo |-> [i \in ImageNames |-> 0], caption |-> [i \in ImageNames |-> 0]]
  /\ unrecorded = [photo |-> [i \in ImageNames |-> 0]]
  /\ runsStarted = 0
  /\ images \in [pending : Folders(MaxImages), posted : {{}}]
  /\ gen = NoGen
  /\ req = NoReq

\* Phases 2 and 3: os.listdir, the oldest file by mtime, open and read; no
\* file is a warning and a plain return, an exception is logged and re-raised
image_select(p, err) ==
  /\ run[p].module = "weekly_posting_image"
  /\ run[p].pc = "select"
  /\ run' = [run EXCEPT ![p] =
               IF err THEN Finish(@, "failed", 1)
               ELSE IF images.pending = << >> THEN Finish(@, "no_candidate", 0)
               ELSE [@ EXCEPT !.pc = "generate", !.image = Head(images.pending)]]
  /\ UNCHANGED <<store, channel, unrecorded, runsStarted, images, gen, req>>

\* Phase 5: LLMInterface() and generate_content; any exception, len(None)
\* included, is logged and re-raised
image_generate(p, init_ok, res) ==
  /\ run[p].module = "weekly_posting_image"
  /\ run[p].pc = "generate"
  /\ init_ok \/ run[p].request = 0
  /\ run' = [run EXCEPT ![p] =
       IF ~init_ok THEN Finish(@, "failed", 1)
       ELSE LET step == GenerateText(run[p].request, res)
                rec == [run[p] EXCEPT !.generator_called = TRUE,
                                      !.generation_exhausted =
                                         /\ res = "exception"
                                         /\ run[p].request >= LlmMaxRetries - 1]
            IN IF step = "retry" THEN [rec EXCEPT !.request = @ + 1]
               ELSE IF step = "raise" \/ res = "none" THEN Finish(rec, "failed", 1)
               ELSE [rec EXCEPT !.pc = "publish", !.request = 0]]
  /\ UNCHANGED <<store, channel, unrecorded, runsStarted, images, gen, req>>

\* Phase 6: post_image_and_caption, one request: sendPhoto with its retries,
\* then sendMessage with the caption and its retries; the responses are not
\* looked at, an exception is logged and re-raised
post_image_and_caption(p, res) ==
  /\ run[p].module = "weekly_posting_image"
  /\ run[p].pc = "publish"
  /\ LET step == MakeRequestWithRetry(run[p].request, res)
         rec == [run[p] EXCEPT !.publisher_called = TRUE]
     IN /\ run' = [run EXCEPT ![p] =
                IF step = "retry" THEN [rec EXCEPT !.request = @ + 1]
                ELSE IF step = "raise" THEN Finish(rec, "failed", 1)
                ELSE IF rec.part = "photo"
                  THEN [rec EXCEPT !.part = "caption", !.request = 0,
                                   !.response = res]
                ELSE [rec EXCEPT !.pc = "move", !.request = 0,
                                 !.delivered = (res = "ok" /\ rec.response = "ok")]]
        /\ channel' = IF res = "ok" THEN Post(channel, rec.part, rec.image)
                                    ELSE channel
  /\ UNCHANGED <<store, unrecorded, runsStarted, images, gen, req>>

\* Phase 7: os.rename to the posted folder; a failure is logged and not
\* raised, the run logs "completed successfully" and returns
image_move(p, err) ==
  /\ run[p].module = "weekly_posting_image"
  /\ run[p].pc = "move"
  /\ images' = IF err THEN images
               ELSE [pending |-> Remove(images.pending, run[p].image),
                     posted |-> images.posted \cup {run[p].image}]
  /\ run' = [run EXCEPT ![p] =
               Finish([@ EXCEPT !.mark_called = TRUE, !.recorded = ~err],
                      "success", 0)]
  /\ unrecorded' = IF run[p].delivered /\ err
                     THEN Post(unrecorded, "photo", run[p].image)
                     ELSE unrecorded
  /\ UNCHANGED <<store, channel, runsStarted, gen, req>>

NextImage ==
  \/ \E p \in DOMAIN run : StartRun(p, "weekly_posting_image")
  \/ \E p \in DOMAIN run, err \in BOOLEAN : image_select(p, err)
  \/ \E p \in DOMAIN run, init_ok \in BOOLEAN, res \in LlmResults :
       image_generate(p, init_ok, res)
  \/ \E p \in DOMAIN run, res \in TelegramResults : post_image_and_caption(p, res)
  \/ \E p \in DOMAIN run, err \in BOOLEAN : image_move(p, err)

SpecImage == InitImage /\ [][NextImage]_vars

\* ------------------------------------------------------------ LLMInterface

\* what one request to the Gemini client gives: a response with text, a
\* response whose text is None, or an exception
GeminiResults == {"text", "none", "exception"}

\* LLMInterface(max_retries, retry_delay), and no method called yet
InitGenerate ==
  /\ Quote = << >>
  /\ News = << >>
  /\ content = << >>
  /\ last = NoCall
  /\ marked = [quote |-> {}, news |-> {}, metadata |-> << >>]
  /\ run = << >>
  /\ channel = [quote |-> << >>, article |-> << >>]
  /\ unrecorded = [quote |-> << >>, article |-> << >>]
  /\ runsStarted = 0
  /\ images = NoImages
  /\ \E n \in 0..MaxConfiguredRetries, d \in 0..MaxRetryDelay :
       gen = [NoGen EXCEPT !.max_retries = n, !.retry_delay = d, !.pc = "loop"]
  /\ req = NoReq

\* for attempt in range(self.max_retries), one pass: return response.text;
\* on an exception sleep retry_delay * (attempt + 1) and go on, or raise on
\* the last attempt; a range that is used up ends the method, which returns None
GenerateLoop(g, res) ==
  IF g.attempt >= g.max_retries
    THEN [g EXCEPT !.pc = "returned", !.result = "none"]
  ELSE IF res # "exception"
    THEN [g EXCEPT !.pc = "returned", !.requests = @ + 1, !.result = res]
  ELSE IF g.attempt < g.max_retries - 1
    THEN [g EXCEPT !.requests = @ + 1, !.attempt = @ + 1,
                   !.slept = Append(@, g.retry_delay * (g.attempt + 1))]
  ELSE [g EXCEPT !.pc = "raised", !.requests = @ + 1]

\* LLMInterface.generate_text: chat.send_message(user_query)
generate_text(res) ==
  /\ gen.pc = "loop"
  /\ gen.method \in {NULL, "generate_text"}
  /\ gen' = GenerateLoop([gen EXCEPT !.method = "generate_text"], res)
  /\ UNCHANGED <<store, run, channel, unrecorded, runsStarted, images, req>>

\* LLMInterface.generate_content: gemini_client.models.generate_content(...)
generate_content(res) ==
  /\ gen.pc = "loop"
  /\ gen.method \in {NULL, "generate_content"}
  /\ gen' = GenerateLoop([gen EXCEPT !.method = "generate_content"], res)
  /\ UNCHANGED <<store, run, channel, unrecorded, runsStarted, images, req>>

NextGenerate ==
  \/ \E res \in GeminiResults : generate_text(res)
  \/ \E res \in GeminiResults : generate_content(res)

SpecGenerate == InitGenerate /\ [][NextGenerate]_vars

\* ------------------------------------------------------- TelegramInterface

Max(a, b) == IF a > b THEN a ELSE b

\* TelegramInterface(retry_attempts, retry_delay): the values kept are
\* max(1, retry_attempts) and max(0, retry_delay)
InitRequest ==
  /\ Quote = << >>
  /\ News = << >>
  /\ content = << >>
  /\ last = NoCall
  /\ marked = [quote |-> {}, news |-> {}, metadata |-> << >>]
  /\ run = << >>
  /\ channel = [quote |-> << >>, article |-> << >>]
  /\ unrecorded = [quote |-> << >>, article |-> << >>]
  /\ runsStarted = 0
  /\ images = NoImages
  /\ gen = NoGen
  /\ \E n \in (0 - 1)..MaxRetryAttempts, d \in (0 - 1)..MaxRetryDelay :
       req = [NoReq EXCEPT !.configured = [retry_attempts |-> n, retry_delay |-> d],
                           !.retry_attempts = Max(1, n),
                           !.retry_delay = Max(0, d),
                           !.pc = "loop"]

\* for attempt in range(self.retry_attempts), one pass: status 200 returns
\* response.json(); another status or a RequestException sleeps retry_delay
\* and goes on, or raises on the last attempt
RequestLoop(r, res) ==
  IF res \in {"ok", "not_ok"}
    THEN [r EXCEPT !.pc = "returned", !.requests = @ + 1, !.response = res]
  ELSE IF r.attempt < r.retry_attempts - 1
    THEN [r EXCEPT !.requests = @ + 1, !.attempt = @ + 1,
                   !.slept = Append(@, r.retry_delay)]
  ELSE [r EXCEPT !.pc = "raised", !.requests = @ + 1, !.response = res]

\* TelegramInterface._make_request_with_retry
make_request_with_retry(res) ==
  /\ req.pc = "loop"
  /\ req' = RequestLoop(req, res)
  /\ UNCHANGED <<store, run, channel, unrecorded, runsStarted, images, gen>>

NextRequest == \E res \in TelegramResults : make_request_with_retry(res)

SpecRequest == InitRequest /\ [][NextRequest]_vars

\* ------------------------------------------------------- claims: the stores

\* C5: for every item id mark-posted returns True at most once; a call on a
\* row that is already posted returns False and changes nothing, a call on an
\* id without a row returns False, and a call on an existing unposted row
\* (no storage error) returns True.
C5_MarkPostedTrueExactlyOnce ==
  last.op \in {"mark_quote_posted", "mark_news_posted"} =>
       LET tbl == IF last.op = "mark_quote_posted" THEN Quote ELSE News IN
       /\ last.again => ~last.ok /\ tbl = last.pre
       /\ last.id \notin 1..Len(last.pre) => ~last.ok /\ tbl = last.pre
       /\ (last.id \in 1..Len(last.pre) /\ last.pre[last.id].posted = 1) =>
            ~last.ok /\ tbl = last.pre
       /\ (last.id \in 1..Len(last.pre) /\ last.pre[last.id].posted = 0
            /\ ~last.err) => last.ok

\* C8: once mark_quote_posted has returned True for an id, no later
\* get_random_unposted_quote returns that id; when every row the filter
\* matches has been marked, the selection returns None.
C8_MarkedNeverSelectedAgain ==
  last.op = "get_random_unposted_quote" =>
    /\ last.row \notin marked.quote
    /\ (\A i \in 1..Len(Quote) :
          (last.categories = << >>
             \/ \E k \in 1..Len(last.categories) :
                  Like(Quote[i].category, last.categories[k]))
          => i \in marked.quote)
       => last.row = 0

\* C8 witness: the only row has been marked and a later unfiltered selection
\* without storage error returned None.
C8_Witness ==
  /\ last.op = "get_random_unposted_quote"
  /\ ~last.err /\ last.categories = << >>
  /\ Len(Quote) = 1 /\ 1 \in marked.quote
  /\ last.row = 0

\* C6: inserting a (title, content_type, module_name) tuple the table already
\* holds (NULL content_type or module_name included) returns False and leaves
\* the table as it was, so the table never holds two rows with the same tuple.
C6_DuplicateInsertRejected ==
  /\ last.op = "mark_content_posted" /\ last.again =>
       ~last.ok /\ content = last.pre
  /\ \A i, j \in 1..Len(content) :
       (/\ content[i].content_title = content[j].content_title
        /\ content[i].content_type = content[j].content_type
        /\ content[i].module_name = content[j].module_name) => i = j

\* C7: the row a random-unposted selection returns has posted = 0 at the time
\* of the call and satisfies the filters, and the result is None exactly when
\* no row has posted = 0 and satisfies the filters.
C7_SelectionUnpostedOrNoneIffNoMatch ==
  /\ last.op = "get_random_unposted_quote" =>
       LET match == {i \in 1..Len(last.pre) :
                       /\ last.pre[i].posted = 0
                       /\ last.categories = << >>
                            \/ \E k \in 1..Len(last.categories) :
                                 Like(last.pre[i].category, last.categories[k])}
       IN /\ last.row # 0 => last.row \in match
          /\ last.row = 0 <=> match = {}
  /\ last.op = "get_random_unposted_content" =>
       LET match == {i \in 1..Len(last.pre) :
                       /\ last.pre[i].posted = 0
                       /\ last.ctype # NULL => last.pre[i].content_type = last.ctype
                       /\ last.category # NULL => last.pre[i].category = last.category}
       IN /\ last.row # 0 => last.row \in match
          /\ last.row = 0 <=> match = {}

\* C7 as amended: the returned row has posted = 0 and satisfies the filters
\* that are neither omitted nor empty; the result is None exactly when the
\* query raised a storage error or no such row exists.
C7_SelectionUnpostedOrNoneIffNoMatchOrError ==
  /\ last.op = "get_random_unposted_quote" =>
       LET match == {i \in 1..Len(last.pre) :
                       /\ last.pre[i].posted = 0
                       /\ last.categories = << >>
                            \/ \E k \in 1..Len(last.categories) :
                                 Like(last.pre[i].category, last.categories[k])}
       IN /\ last.row # 0 => last.row \in match
          /\ last.row = 0 <=> (last.err \/ match = {})
  /\ last.op = "get_random_unposted_content" =>
       LET match == {i \in 1..Len(last.pre) :
                       /\ last.pre[i].posted = 0
                       /\ last.ctype \notin {NULL, ""} =>
                            last.pre[i].content_type = last.ctype
                       /\ last.category \notin {NULL, ""} =>
                            last.pre[i].category = last.category}
       IN /\ last.row # 0 => last.row \in match
          /\ last.row = 0 <=> (last.err \/ match = {})

\* C7 witness: a filtered selection on the content table returned an unposted
\* row while the table also holds a posted row.
C7_Witness ==
  /\ last.op = "get_random_unposted_content"
  /\ last.ctype = "quote" /\ last.category = "Manga"
  /\ last.row # 0
  /\ \E i \in 1..Len(content) : content[i].posted = 1

\* ----------------------------------------------------- claims: the pipelines

StoreAsAtStart(p) ==
  /\ Quote = run[p].at_start.Quote
  /\ content = run[p].at_start.content

\* C1 as stated: over any sequence of runs that do not overlap, every quote
\* and every article reaches the channel at most once.
C1_PublishedAtMostOnce ==
  /\ \A i \in DOMAIN channel.quote : channel.quote[i] <= 1
  /\ \A t \in DOMAIN channel.article : channel.article[t] <= 1

\* C1 amended: over any sequence of runs that do not overlap, a run publishes
\* only an item the store did not show as posted when the run started, and an
\* item reaches the channel once more only after a run that published it and
\* then failed to record it: posts <= 1 + posts that were not recorded.
C1_PublishedAgainOnlyAfterUnrecordedPost ==
  /\ \A i \in DOMAIN channel.quote : channel.quote[i] <= 1 + unrecorded.quote[i]
  /\ \A t \in DOMAIN channel.article : channel.article[t] <= 1 + unrecorded.article[t]
  /\ \A p \in DOMAIN run :
       run[p].publisher_called =>
         /\ run[p].quote_id # 0 => run[p].at_start.Quote[run[p].quote_id].posted = 0
         /\ run[p].article # NULL =>
              ~ \E k \in 1..Len(run[p].at_start.content) :
                  /\ run[p].at_start.content[k].content_title = run[p].article
                  /\ run[p].at_start.content[k].posted = 1

\* the second run has published a quote again that the first run published
\* and failed to record, and has recorded it
C1_Witness ==
  \E i \in DOMAIN channel.quote :
    /\ channel.quote[i] = 2
    /\ unrecorded.quote[i] = 1
    /\ Quote[i].posted = 1
    /\ \A p \in DOMAIN run : run[p].pc = "done" /\ run[p].recorded

\* C2: within a run the mark-posted call (mark_quote_posted,
\* mark_content_posted) is made only after the publisher has confirmed, in
\* the same run, that the item was published.
C2_MarkOnlyAfterConfirmedPublish ==
  \A p \in DOMAIN run : run[p].mark_called => run[p].delivered

\* C3: a run whose every publish attempt failed leaves the candidate unposted
\* and every row of the store as it was when the run started.
C3_FailedPublishLeavesStoreUntouched ==
  \A p \in DOMAIN run :
    (run[p].pc = "done" /\ run[p].publisher_called /\ ~run[p].delivered)
      => StoreAsAtStart(p)

\* C4: a run that published and then failed to mark the item as posted
\* reports "published but not recorded", neither success nor a plain failure.
C4_PublishedButNotRecordedIsReported ==
  \A p \in DOMAIN run :
    (run[p].pc = "done" /\ run[p].delivered /\ run[p].mark_called /\ ~run[p].recorded)
      => run[p].outcome = "published_not_recorded"

\* C9: when the last generation attempt of a run has failed, the run has
\* ended with a reported failure, the publisher was never called, no
\* mark-posted call was made, and the store, the candidate included, is as
\* it was when the run started.
C9_GenerationFailureEndsRunBeforePublish ==
  \A p \in DOMAIN run :
    run[p].generation_exhausted =>
      /\ run[p].pc = "done"
      /\ run[p].outcome = "failed"
      /\ ~run[p].publisher_called
      /\ ~run[p].mark_called
      /\ StoreAsAtStart(p)
      /\ run[p].quote_id # 0 => Quote[run[p].quote_id].posted = 0
      /\ run[p].article # NULL =>
           \A k \in 1..Len(content) : content[k].content_title # run[p].article

\* weekly_nerd_curiosities has used up its generation attempts for an article
C9_Witness ==
  \E p \in DOMAIN run :
    /\ run[p].module = "weekly_nerd_curiosities"
    /\ run[p].generation_exhausted
    /\ run[p].generator_called
    /\ run[p].article # NULL
    /\ run[p].attempt = RetryAttempts - 1
    /\ run[p].pc = "done"

\* C10: a run whose selection finds no unposted candidate calls neither the
\* generator nor the publisher, writes nothing to the store and ends with
\* exit status 0.
C10_NoCandidateIsBenignNoOp ==
  \A p \in DOMAIN run :
    (run[p].pc = "done" /\ run[p].outcome = "no_candidate") =>
      /\ ~run[p].generator_called
      /\ ~run[p].publisher_called
      /\ StoreAsAtStart(p)
      /\ run[p].exit_code = 0

\* C11: a finished run has exit status 0 exactly when it succeeded (the item
\* was published and recorded) or found no candidate, and a non-zero status
\* when discovery, generation, publish or record failed.
C11_ExitStatusTellsSuccess ==
  \A p \in DOMAIN run :
    run[p].pc = "done" =>
      (run[p].exit_code = 0 <=>
         \/ run[p].delivered /\ run[p].recorded
         \/ run[p].outcome = "no_candidate")

\* C12: publishing a post is all-or-nothing: when post_image_and_caption
\* has ended, by returning or by raising, the image and its caption have
\* both reached the channel or neither has, and the call has returned
\* exactly when both have.
C12_PostDeliveredWhollyOrNotAtAll ==
  \A p \in DOMAIN run :
    (run[p].module = "weekly_posting_image" /\ run[p].publisher_called
       /\ run[p].pc \in {"move", "done"}) =>
      /\ channel.photo[run[p].image] = channel.caption[run[p].image]
      /\ run[p].delivered <=> (run[p].pc = "move" \/ run[p].mark_called)

\* C13: in every row of the content table posted = 1 implies that post_date
\* is set and posted = 0 implies that it is not (dates are the ticks of
\* Now, 1 and up; a NULL date would read 0).
C13_PostDateSetIffPosted ==
  \A i \in 1..Len(content) :
    /\ content[i].posted = 1 => content[i].post_date > 0
    /\ content[i].posted = 0 => content[i].post_date = 0

\* a step keeps every row of the table and leaves the posted rows as they are
KeepsHistory(tbl, tbl2) ==
  /\ Len(tbl2) >= Len(tbl)
  /\ \A i \in 1..Len(tbl) : tbl[i].posted = 1 => tbl2[i] = tbl[i]

\* C14: the store is append-only history: no step deletes a row of Quote,
\* News or the content table, and no step changes any field of a row that
\* has posted = 1 (posted never goes back to 0, post_date never changes).
C14_AppendOnlyHistory ==
  [][/\ KeepsHistory(Quote, Quote')
     /\ KeepsHistory(News, News')
     /\ KeepsHistory(content, content')]_vars

\* mark_quote_posted has been called on a quote that was posted already,
\* while the content table holds a posted row and an unposted one
C14_Witness ==
  /\ last.op = "mark_quote_posted"
  /\ last.id \in 1..Len(last.pre)
  /\ last.pre[last.id].posted = 1
  /\ \E i, j \in 1..Len(content) : content[i].posted = 1 /\ content[j].posted = 0

\* C15: an item newly inserted into the store is created unposted: the row
\* that a successful insert has just appended has posted = 0.
C15_InsertedUnposted ==
  (last.op = "mark_content_posted" /\ last.ok) =>
     /\ Len(content) = Len(last.pre) + 1
     /\ content[Len(content)].posted = 0

\* ------------------------------------------------- claims: concurrent runs

AllDone == \A p \in DOMAIN run : run[p].pc = "done"

QuotePosted(i) == Quote[i].posted = 1

ArticlePosted(t) ==
  \E k \in 1..Len(content) : content[k].content_title = t /\ content[k].posted = 1

OneRowPerArticle ==
  \A j, k \in 1..Len(content) :
    content[j].content_title = content[k].content_title => j = k

\* C16 as stated: when two runs of one pipeline overlap, every item reaches
\* the channel at most twice, the store holds one row per item, and once both
\* runs have ended every published item is marked posted.
C16_AtMostOneDuplicateAndPublishedMarked ==
  /\ \A i \in DOMAIN channel.quote : channel.quote[i] <= 2
  /\ \A t \in DOMAIN channel.article : channel.article[t] <= 2
  /\ OneRowPerArticle
  /\ AllDone =>
       /\ \A i \in DOMAIN channel.quote : channel.quote[i] > 0 => QuotePosted(i)
       /\ \A t \in DOMAIN channel.article : channel.article[t] > 0 => ArticlePosted(t)

\* C16 amended: when two runs of one pipeline overlap, every item reaches
\* the channel at most twice, the store holds one row per item, and once both
\* runs have ended a published item is marked posted unless every post of it
\* was followed by a mark-posted call that failed.
C16_AtMostOneDuplicateAndMarkedUnlessRecordFailed ==
  /\ \A i \in DOMAIN channel.quote : channel.quote[i] <= 2
  /\ \A t \in DOMAIN channel.article : channel.article[t] <= 2
  /\ OneRowPerArticle
  /\ AllDone =>
       /\ \A i \in DOMAIN channel.quote :
            (channel.quote[i] > 0 /\ ~QuotePosted(i))
              => unrecorded.quote[i] >= channel.quote[i]
       /\ \A t \in DOMAIN channel.article :
            (channel.article[t] > 0 /\ ~ArticlePosted(t))
              => unrecorded.article[t] >= channel.article[t]

\* two overlapping runs have published the same article; the first insert
\* was stored, the second was rejected as a duplicate
C16_Witness ==
  /\ AllDone
  /\ \E t \in DOMAIN channel.article :
       /\ channel.article[t] = 2
       /\ ArticlePosted(t)
       /\ unrecorded.article[t] = 1
  /\ \A p \in DOMAIN run : run[p].at_start.content = << >>

\* C17: selection claims the item it returns: two runs that are under way
\* at the same time never hold the same quote as their candidate.
C17_SelectionClaimsItem ==
  \A p, q \in DOMAIN run :
    (/\ p # q
     /\ run[p].pc \notin {"idle", "done"}
     /\ run[q].pc \notin {"idle", "done"}
     /\ run[p].quote_id # 0)
      => run[p].quote_id # run[q].quote_id

\* ------------------------------------------------- claims: connections

\* C18: a run that has ended holds no open connection to the store, whatever
\* the path by which it ended.
C18_ConnectionClosedWhenRunEnds ==
  \A p \in DOMAIN run : run[p].pc = "done" => ~run[p].conn_open

\* ------------------------------------------------ claims: storage errors

\* C19: a call that meets a storage error raises nothing to its caller: a
\* write returns False and leaves the table as it was, a read returns None
\* or an empty (false) answer.
C19_StorageErrorStaysInside ==
  last.err =>
    /\ ~last.raised
    /\ last.op \in {"create_schema", "mark_content_posted"} =>
         ~last.ok /\ content = last.pre
    /\ last.op = "get_random_unposted_content" => last.row = 0
    /\ last.op = "is_content_posted" => ~last.ok

\* ------------------------------------------------- claims: the generator

\* C20: whatever attempt count and delay are configured, a call of the
\* generator sends at most max_retries requests, sleeps longer before each
\* further request, raises only after max_retries failed requests, and when
\* it returns it returns a generated text.
C20_GeneratorRetriesThenTextOrError ==
  /\ gen.requests <= gen.max_retries
  /\ \A i \in 1..(Len(gen.slept) - 1) : gen.slept[i] < gen.slept[i + 1]
  /\ gen.pc = "raised" => gen.requests = gen.max_retries
  /\ gen.pc = "returned" => gen.result = "text"

\* ------------------------------------------------- claims: the publisher

\* C21: whatever retry_attempts and retry_delay are configured, a call of the
\* request routine that has ended sent at least one and at most
\* max(1, retry_attempts) requests, waited longer before each further
\* request, raised only after the last attempt, and when it returned it
\* returned a success response.
C21_RequestRetriesThenSuccessOrError ==
  /\ req.pc \in {"returned", "raised"} => req.requests >= 1
  /\ req.requests <= Max(1, req.configured.retry_attempts)
  /\ \A i \in 1..(Len(req.slept) - 1) : req.slept[i] < req.slept[i + 1]
  /\ req.pc = "raised" => req.requests = Max(1, req.configured.retry_attempts)
  /\ req.pc = "returned" => req.response = "ok"

\* --------------------------------------------------- claims: termination

\* the phases of the three pipelines
Stages == {"setup", "select", "discover", "generate", "publish", "record"}

Contains(text, pat) ==
  /\ text # NULL
  /\ \E i \in 0..(Len(Chars[text]) - Len(Chars[pat])) :
       SubSeq(Chars[text], i + 1, i + Len(Chars[pat])) = Chars[pat]

\* the same with ASCII letters compared without regard to case
ContainsIgnoringCase(text, pat) ==
  /\ text # NULL
  /\ \E i \in 0..(Len(Chars[text]) - Len(Chars[pat])) :
       LowerSeq(SubSeq(Chars[text], i + 1, i + Len(Chars[pat]))) = LowerSeq(Chars[pat])

\* the selection with this filter can return this row now
CanReturn(categories, i) ==
  ENABLED (get_random_unposted_quote(categories, FALSE) /\ last'.row = i)

C24_MetadataRoundTrip ==
  (last.op \in {"get_content_by_type", "get_recent_posts"} /\ ~last.err) =>
    \A k \in 1..Len(last.result) :
      last.result[k].metadata = marked.metadata[last.result[k].row]

\* the queries of ContentDatabase that only read
ReadOnlyQueries ==
  {"get_category_stats", "get_recent_posts", "get_content_by_type",
   "is_content_posted", "get_random_unposted_content"}

\* C25: a read-only query leaves every row of the table as it was, and a
\* get_category_stats that follows the same get_category_stats with no
\* write in between returns the map the first one returned.
C25_QueriesReadOnly ==
  /\ last.op \in ReadOnlyQueries => content = last.pre
  /\ (last.op = "get_category_stats" /\ last.again /\ ~last.err) =>
       last.result[1] = last.result[2]

\* two get_category_stats calls in a row on a table with posted rows of a
\* category
C25_Witness ==
  /\ last.op = "get_category_stats" /\ last.again /\ ~last.err
  /\ Len(content) = MaxContent
  /\ DOMAIN last.result[1] = {"Manga"}
  /\ last.result[2]["Manga"] = MaxContent

\* ------------------------------------ claims: weekly_nerd_curiosities runs

\* C26: a run of weekly_nerd_curiosities reports "published to Telegram but
\* not tracked in database" only when one of its publish attempts succeeded.
C26_NotTrackedWarningOnlyAfterPublish ==
  \A p \in DOMAIN run :
    (/\ run[p].module = "weekly_nerd_curiosities"
     /\ run[p].pc = "done"
     /\ run[p].outcome = "published_not_recorded")
      => run[p].delivered

\* C27: one call of publish_to_telegram sends at most retry_attempts requests
\* to the Bot API, those of send_message's own retries counted.
C27_PublishSendsAtMostRetryAttempts ==
  \A p \in DOMAIN run :
    run[p].module = "weekly_nerd_curiosities" => run[p].sent <= RetryAttempts

\* C28: a weekly_nerd_curiosities run whose duplicate checks all met a storage
\* error selects no article, calls neither the generator nor the publisher,
\* writes nothing to the store, and ends in the discovery stage as failed.
C28_FailedChecksSelectNothing ==
  \A p \in DOMAIN run :
    (/\ run[p].module = "weekly_nerd_curiosities"
     /\ run[p].checks = "failed")
      => /\ run[p].article = NULL
         /\ ~run[p].generator_called
         /\ ~run[p].publisher_called
         /\ ~run[p].mark_called
         /\ content = run[p].at_start.content
         /\ run[p].pc \in {"discover", "done"}
         /\ run[p].pc = "done" =>
              /\ run[p].outcome = "failed"
              /\ run[p].stage = "discover"

\* a finished run whose every pass found a title that is not in the history
\* and whose every duplicate check met a storage error
C28_Witness ==
  \E p \in DOMAIN run :
    /\ run[p].module = "weekly_nerd_curiosities"
    /\ run[p].checks = "failed"
    /\ run[p].pc = "done"
    /\ run[p].attempt = DiscoveryMaxRetries - 1
    /\ \A i \in 1..Len(content) : content[i].posted = 0

\* ---------------------------------------- claims: weekly_posting_image runs

\* C29: a file is in the posted folder only if a run published it, photo and
\* caption; a run whose reading, caption generation or publishing failed
\* leaves its file in the pending folder.
C29_FileMovedOnlyAfterPublish ==
  \A i \in images.posted :
    /\ channel.photo[i] >= 1
    /\ channel.caption[i] >= 1

\* ------------------------------------------- claims: the generated post

\* C30 as stated: the text handed to the publisher is stripped, 50 to 450
\* characters long, holds a '#' and holds one of the Italian indicators; when
\* no attempt gives such a text nothing is handed to the publisher.
C30_PublishedTextValidated ==
  /\ gen.handed =>
       /\ gen.post = Strip(gen.post)
       /\ Length(gen.post) >= post_length_min
       /\ Length(gen.post) <= post_length_max
       /\ gen.post.hash
       /\ gen.post.letters \in ItalianIndicators
  /\ gen.pc = "failed" =>
       /\ ~gen.handed
       /\ gen.post = EmptyText
       /\ gen.attempt = gen.retry_attempts

\* C30 (amended): the text handed to the publisher is stripped, 50 to 450
\* characters long, holds a '#' and, once put in lower case, holds one of the
\* Italian indicators; when no attempt gives such a text nothing is handed to
\* the publisher.
C30_PublishedTextValidatedInLowerCase ==
  /\ gen.handed =>
       /\ gen.post = Strip(gen.post)
       /\ Length(gen.post) >= post_length_min
       /\ Length(gen.post) <= post_length_max
       /\ gen.post.hash
       /\ LowerCase(gen.post.letters) \in ItalianIndicators
  /\ gen.pc = "failed" =>
       /\ ~gen.handed
       /\ gen.post = EmptyText
       /\ gen.attempt = gen.retry_attempts

\* the last attempt gave a text in capitals with white space around 450
\* characters, and main handed it to the publisher
C30_Witness ==
  /\ gen.handed
  /\ gen.retry_attempts = RetryAttempts
  /\ gen.attempt = gen.retry_attempts
  /\ gen.generated_content.lead = 1
  /\ gen.generated_content.trail = 1
  /\ gen.post.core = post_length_max
  /\ gen.post.letters = "CHE"

====
